---- MODULE Spec2Model ----
(***************************************************************************)
(* CyberBrowser (src/main.py): the tab strip, the position -> identity     *)
(* map kept by the main window, lazy promotion of a tab from its Home      *)
(* widget to a live web view, and the Tor process manager the window       *)
(* drives.                                                                 *)
(*                                                                         *)
(* Text (tab labels, queries, URLs) is a sequence of one-character         *)
(* strings.  Positions are 0-based as in the code; tab_bar is a TLA+       *)
(* sequence, so the tab at position p is tab_bar[p + 1].                   *)
(***************************************************************************)
EXTENDS Integers, Sequences, FiniteSets, TLC

\* ---------------------------------------------------------------- bounds
\* Largest number of tabs the window holds in a run, and of tab drags in
\* a run, where searches are made (Spec, SpecAgain).
MaxTabs == 3
MaxMoves == 1
\* The same where only the strip is used (SpecStrip).
StripTabs == 4
StripMoves == 2
\* The same where any tab of the strip is dragged, the "+" tab included
\* (SpecDrag).
DragTabs == 3
DragMoves == 2
\* Longest host name typed where the tab titles are looked at (SpecTitle).
MaxTitle == 16
\* Largest number of tabs where the Tor manager runs beside them
\* (SpecBrowser).
BrowserTabs == 2
\* Largest number of tabs promoted to a live view in a run.
MaxLive == 1

\* ----------------------------------------------------------------- text
HomeText == <<"H", "o", "m", "e">>
NewTabText == <<"N", "e", "w", " ", "T", "a", "b">>
PlusText == <<"+">>
HttpText == <<"h", "t", "t", "p">>
HttpPrefix == <<"h", "t", "t", "p", ":", "/", "/">>
OnionText == <<".", "o", "n", "i", "o", "n">>
BraceText == <<"{", "}">>
DotsText == <<".", ".", ".">>
ColonSpace == <<":", " ">>

Min(a, b) == IF a < b THEN a ELSE b

\* sub in s
Contains(s, sub) ==
    \E i \in 1..(Len(s) - Len(sub) + 1) : SubSeq(s, i, i + Len(sub) - 1) = sub
\* s.startswith(pre)
StartsWith(s, pre) == Len(s) >= Len(pre) /\ SubSeq(s, 1, Len(pre)) = pre

\* s.strip(), for the blank that can be typed: the space
RECURSIVE lstrip(_)
lstrip(s) == IF s # <<>> /\ Head(s) = " " THEN lstrip(Tail(s)) ELSE s
RECURSIVE rstrip(_)
rstrip(s) ==
    IF s # <<>> /\ s[Len(s)] = " " THEN rstrip(SubSeq(s, 1, Len(s) - 1)) ELSE s
strip(s) == rstrip(lstrip(s))

\* s.split(sep) for a one-character sep: the list of the parts
RECURSIVE split(_, _)
split(s, sep) ==
    IF \E i \in 1..Len(s) : s[i] = sep
    THEN LET i == CHOOSE j \in 1..Len(s) :
                      s[j] = sep /\ \A k \in 1..(j - 1) : s[k] # sep
         IN <<SubSeq(s, 1, i - 1)>> \o split(SubSeq(s, i + 1, Len(s)), sep)
    ELSE <<s>>

\* s.replace(" ", "+")
replace_spaces(s) == [i \in 1..Len(s) |-> IF s[i] = " " THEN "+" ELSE s[i]]

\* str.upper / str.lower on one character (the letters the model types)
Letters == <<<<"a", "A">>, <<"b", "B">>, <<"i", "I">>, <<"o", "O">>,
             <<"x", "X">>, <<"h", "H">>, <<"t", "T">>, <<"p", "P">>,
             <<"n", "N">>>>
upper(c) == IF \E i \in 1..Len(Letters) : Letters[i][1] = c
            THEN Letters[CHOOSE i \in 1..Len(Letters) : Letters[i][1] = c][2]
            ELSE c
lower(c) == IF \E i \in 1..Len(Letters) : Letters[i][2] = c
            THEN Letters[CHOOSE i \in 1..Len(Letters) : Letters[i][2] = c][1]
            ELSE c
\* s.capitalize(): first character upper case, the rest lower case
capitalize(s) == [i \in 1..Len(s) |-> IF i = 1 THEN upper(s[i]) ELSE lower(s[i])]

\* template.format(arg) for a template whose only replacement field is "{}"
format(template, arg) ==
    IF Contains(template, BraceText)
    THEN LET i == CHOOSE j \in 1..(Len(template) - 1) :
                      /\ SubSeq(template, j, j + 1) = BraceText
                      /\ \A k \in 1..(j - 1) :
                             SubSeq(template, k, k + 1) # BraceText
         IN SubSeq(template, 1, i - 1) \o arg
            \o SubSeq(template, i + 2, Len(template))
    ELSE template

\* The trailing "+" tab of the strip is not a browser tab: it carries no
\* identity.  Every other tab of the strip carries the identity that was
\* allocated when it was inserted.
Affordance == -1

\* ConfigManager.default_config["search_engines"], two of its entries.
Google == <<"G", "o", "o", "g", "l", "e">>
DuckDuckGo == <<"D", "u", "c", "k", "D", "u", "c", "k", "G", "o">>
search_engines ==
    [e \in {Google, DuckDuckGo} |->
       IF e = Google
       THEN <<"h", "t", "t", "p", "s", ":", "/", "/", "w", "w", "w", ".", "g", "o", "o", "g", "l", "e", ".", "c", "o", "m", "/", "s", "e", "a", "r", "c", "h", "?", "q", "=", "{", "}">>
       ELSE <<"h", "t", "t", "p", "s", ":", "/", "/", "d", "u", "c", "k", "d", "u", "c", "k", "g", "o", ".", "c", "o", "m", "/", "?", "q", "=", "{", "}">>]
GoogleFallback == <<"h", "t", "t", "p", "s", ":", "/", "/", "w", "w", "w", ".", "g", "o", "o", "g", "l", "e", ".", "c", "o", "m", "/", "s", "e", "a", "r", "c", "h", "?", "q", "=">>

Max(S) == CHOOSE x \in S : \A y \in S : y <= x

\* ---------------------------------------------------------------- state
VARIABLES
    tab_bar,         \* QTabBar: sequence of [tab, text]
    currentIndex,    \* QTabBar.currentIndex()
    tab_id_mapping,  \* dict position -> tab_id
    tab_data,        \* dict tab_id -> [widget, web_view, title]
    next_tab_id,     \* next identity to hand out
    stack,           \* QStackedLayout: the widgets it holds
    stack_current,   \* QStackedLayout.currentWidget()
    browsers,        \* the QWebEngineViews created: [url, profile] each
    config_file,     \* what cyberbrowser_config.json holds on disk
    enable_tor,      \* config["enable_tor"]
    tor_directory,   \* config["tor_directory"]
    tor_exe,         \* a tor executable exists in tor_directory
    tor_process,     \* TorManager.tor_process: "None", "alive", "exited"
    is_running,      \* TorManager.is_running
    tor_profile,     \* the window's tor_profile has been created
    orphans,         \* processes Popen started that are alive with no handle
    pc,              \* where the UI thread is, and the locals of its call
    last,            \* the TorManager call the last handler run made
    moves,           \* tab drags so far
    again            \* the perform_search call on an already live tab that
                     \* the last handler run was, if it was one

tabvars == <<tab_bar, currentIndex, tab_id_mapping, tab_data, next_tab_id,
             stack, stack_current, browsers>>
torvars == <<config_file, enable_tor, tor_directory, tor_exe, tor_process,
             is_running, tor_profile, orphans>>
vars == <<tabvars, torvars, pc, last, moves, again>>

\* The window's state as one value, so that a handler which calls another
\* handler (or is re-entered through a Qt signal) composes.
Window == [tab_bar |-> tab_bar, currentIndex |-> currentIndex,
           tab_id_mapping |-> tab_id_mapping, tab_data |-> tab_data,
           next_tab_id |-> next_tab_id, stack |-> stack,
           stack_current |-> stack_current, browsers |-> browsers,
           enable_tor |-> enable_tor, tor_directory |-> tor_directory,
           tor_exe |-> tor_exe, tor_process |-> tor_process,
           is_running |-> is_running, tor_profile |-> tor_profile,
           orphans |-> orphans, config_file |-> config_file]

count(w) == Len(w.tab_bar)
tabText(w, index) == w.tab_bar[index + 1].text

HomeWidget(tab_id) == [kind |-> "home", id |-> tab_id]
BrowserWidget(n) == [kind |-> "browser", id |-> n]
NoView == [kind |-> "None", id |-> 0]
NoCall == [tab_id |-> -1, text |-> <<>>, selected_engine |-> <<>>]

\* tor_status_changed.emit(running, reason)
Notice(running, reason) == [running |-> running, reason |-> reason]

\* The UI thread in the event loop, between two handlers.
AtEvents == [at |-> "events", caller |-> "", tab_id |-> -1, query |-> <<>>,
             selected_engine |-> <<>>, tor_on |-> FALSE, elapsed |-> 0,
             before |-> <<>>]
\* No TorManager call was made by the last handler run.
NoLast == [op |-> "none", caller |-> "", ok |-> FALSE, emitted |-> <<>>,
           spawned |-> 0, connected_at |-> -1, before |-> <<>>,
           trace |-> <<>>]

\* dict[key] = value
DictSet(d, k, v) == [x \in DOMAIN d \cup {k} |-> IF x = k THEN v ELSE d[x]]

\* ------------------------------------------------------------- Qt pieces
\* QTabBar.insertTab(index, text): the tab list grows at index; a current
\* index at or after the insertion point moves up with its tab, silently.
insertTab(w, index, tab, text) ==
    [w EXCEPT
       !.tab_bar = SubSeq(w.tab_bar, 1, index)
                   \o <<[tab |-> tab, text |-> text]>>
                   \o SubSeq(w.tab_bar, index + 1, Len(w.tab_bar)),
       !.currentIndex = IF index <= w.currentIndex
                        THEN w.currentIndex + 1 ELSE w.currentIndex]

\* QTabBar.moveTab(from, to) on the tab list: the tab at from ends at to,
\* the tabs between close the gap.
calculateNewPosition(from, to, index) ==
    IF index = from THEN to
    ELSE IF from < to /\ index > from /\ index <= to THEN index - 1
    ELSE IF to < from /\ index >= to /\ index < from THEN index + 1
    ELSE index

moveTab(w, from, to) ==
    LET old == w.tab_bar
        src(p) == CHOOSE q \in 0..(Len(old) - 1) :
                      calculateNewPosition(from, to, q) = p
    IN [w EXCEPT
          !.tab_bar = [i \in 1..Len(old) |-> old[src(i - 1) + 1]],
          !.currentIndex = calculateNewPosition(from, to, w.currentIndex)]

\* QTabBar.setTabText(index, text): an index outside the strip is ignored.
setTabText(w, index, text) ==
    IF index >= 0 /\ index < count(w)
    THEN [w EXCEPT !.tab_bar[index + 1].text = text]
    ELSE w

\* QStackedLayout.setCurrentWidget: a widget the layout does not hold is
\* refused and the current widget stays.
setCurrentWidget(w, widget) ==
    IF widget \in w.stack THEN [w EXCEPT !.stack_current = widget] ELSE w

\* ------------------------------------------------------- window handlers
\* create_new_tab_insert as it would be if only the positions after the
\* insertion point moved up (">" for ">="): an identity mapped to the
\* insertion point is overwritten by the new tab.
create_new_tab_insert_after(w) ==
    LET new_tab_index == count(w) - 1
        tab_id == w.next_tab_id
        w1 == insertTab(w, new_tab_index, tab_id, NewTabText)
        m == w.tab_id_mapping
        shifted == [k \in {IF i > new_tab_index THEN i + 1 ELSE i :
                               i \in DOMAIN m} |->
                      IF k > new_tab_index THEN m[k - 1] ELSE m[k]]
        home_widget == HomeWidget(tab_id)
    IN [w1 EXCEPT
          !.next_tab_id = tab_id + 1,
          !.tab_id_mapping = DictSet(shifted, new_tab_index, tab_id),
          !.stack = w1.stack \cup {home_widget},
          !.tab_data = DictSet(w1.tab_data, tab_id,
                               [widget |-> home_widget, web_view |-> NoView,
                                title |-> NewTabText])]

\* create_new_tab_insert as it would be if next_tab_id were not advanced:
\* the next tab gets the same identity and replaces this one's tab_data.
create_new_tab_insert_reuse(w) ==
    LET new_tab_index == count(w) - 1
        tab_id == w.next_tab_id
        w1 == insertTab(w, new_tab_index, tab_id, NewTabText)
        m == w.tab_id_mapping
        shifted == [k \in {IF i >= new_tab_index THEN i + 1 ELSE i :
                               i \in DOMAIN m} |->
                      IF k > new_tab_index THEN m[k - 1] ELSE m[k]]
        home_widget == HomeWidget(tab_id)
    IN [w1 EXCEPT
          !.tab_id_mapping = DictSet(shifted, new_tab_index, tab_id),
          !.stack = w1.stack \cup {home_widget},
          !.tab_data = DictSet(w1.tab_data, tab_id,
                               [widget |-> home_widget, web_view |-> NoView,
                                title |-> NewTabText])]

\* create_new_tab up to, not including, its final setCurrentIndex.
create_new_tab_insert(w) ==
    LET new_tab_index == count(w) - 1
        tab_id == w.next_tab_id
        w1 == insertTab(w, new_tab_index, tab_id, NewTabText)
        m == w.tab_id_mapping
        shifted == [k \in {IF i >= new_tab_index THEN i + 1 ELSE i :
                               i \in DOMAIN m} |->
                      IF k > new_tab_index THEN m[k - 1] ELSE m[k]]
        home_widget == HomeWidget(tab_id)
    IN [w1 EXCEPT
          !.next_tab_id = tab_id + 1,
          !.tab_id_mapping = DictSet(shifted, new_tab_index, tab_id),
          !.stack = w1.stack \cup {home_widget},
          !.tab_data = DictSet(w1.tab_data, tab_id,
                               [widget |-> home_widget, web_view |-> NoView,
                                title |-> NewTabText])]

\* on_tab_changed for an index whose tab is not labelled "+".
show_tab(w, index) ==
    IF index \in DOMAIN w.tab_id_mapping
       /\ w.tab_id_mapping[index] \in DOMAIN w.tab_data
    THEN setCurrentWidget(w, w.tab_data[w.tab_id_mapping[index]].widget)
    ELSE w

\* create_new_tab as it would be without its final setCurrentIndex.
create_new_tab_unselected(w) == create_new_tab_insert(w)

\* create_new_tab: its setCurrentIndex(new_tab_index) emits currentChanged
\* when the index changes, which re-enters on_tab_changed for the new tab.
RECURSIVE on_tab_changed(_, _)
create_new_tab(w) ==
    LET new_tab_index == count(w) - 1
        w1 == create_new_tab_insert(w)
    IN IF w1.currentIndex = new_tab_index THEN w1
       ELSE on_tab_changed([w1 EXCEPT !.currentIndex = new_tab_index],
                           new_tab_index)

on_tab_changed(w, index) ==
    IF index >= 0 /\ index < count(w)
    THEN IF tabText(w, index) = PlusText
         THEN create_new_tab(w)
         ELSE show_tab(w, index)
    ELSE w

\* on_tab_moved_map as it would be without "del tab_id_mapping[from_index]":
\* the moved identity stays mapped at a second position.
on_tab_moved_map_kept(m, from_index, to_index) ==
    LET moved_tab_id == m[from_index]
        rest == DOMAIN m
        new_index(tab_index) ==
            IF from_index < to_index
            THEN (IF tab_index <= to_index THEN tab_index - 1 ELSE tab_index)
            ELSE (IF tab_index >= to_index THEN tab_index + 1 ELSE tab_index)
        keys == {new_index(k) : k \in rest} \cup {to_index}
    IN [p \in keys |->
          IF p = to_index THEN moved_tab_id
          ELSE m[Max({k \in rest : new_index(k) = p})]]

\* on_tab_moved_map as it would be without its last write,
\* "new_mapping[to_index] = moved_tab_id": the dragged identity is lost.
on_tab_moved_map_dropped(m, from_index, to_index) ==
    LET rest == DOMAIN m \ {from_index}
        new_index(tab_index) ==
            IF from_index < to_index
            THEN (IF tab_index <= to_index THEN tab_index - 1 ELSE tab_index)
            ELSE (IF tab_index >= to_index THEN tab_index + 1 ELSE tab_index)
        keys == {new_index(k) : k \in rest}
    IN [p \in keys |-> m[Max({k \in rest : new_index(k) = p})]]
\* The dict on_tab_moved builds, for a from_index the map holds.  Entries
\* are written in ascending key order, the moved tab last; a later write to
\* the same key replaces an earlier one.
on_tab_moved_map(m, from_index, to_index) ==
    LET moved_tab_id == m[from_index]
        rest == DOMAIN m \ {from_index}
        new_index(tab_index) ==
            IF from_index < to_index
            THEN (IF tab_index <= to_index THEN tab_index - 1 ELSE tab_index)
            ELSE (IF tab_index >= to_index THEN tab_index + 1 ELSE tab_index)
        keys == {new_index(k) : k \in rest} \cup {to_index}
    IN [p \in keys |->
          IF p = to_index THEN moved_tab_id
          ELSE m[Max({k \in rest : new_index(k) = p})]]

\* on_tab_moved: reading tab_id_mapping[from_index] raises KeyError before
\* anything is written when the map has no such position.
on_tab_moved(w, from_index, to_index) ==
    IF from_index \in DOMAIN w.tab_id_mapping
    THEN [w EXCEPT !.tab_id_mapping =
                      on_tab_moved_map(w.tab_id_mapping, from_index, to_index)]
    ELSE w

\* display_title as it would be with "len(title) >= 15": a title of
\* exactly 15 characters is cut as well.
display_title_from15(title) ==
    IF Len(title) >= 15 THEN SubSeq(title, 1, 12) \o DotsText ELSE title
\* update_tab_title: the first position mapped to tab_id gets the title,
\* cut to 12 characters and "..." when it is longer than 15.  No two
\* positions are ever mapped to one identity, so "first" is "the".
display_title(title) ==
    IF Len(title) > 15 THEN SubSeq(title, 1, 12) \o DotsText ELSE title

update_tab_title(w, tab_id, title) ==
    LET hits == {p \in DOMAIN w.tab_id_mapping : w.tab_id_mapping[p] = tab_id}
    IN IF hits = {} THEN w
       ELSE setTabText(w, CHOOSE p \in hits : TRUE, display_title(title))

\* -------------------------------------------------------- ConfigManager
\* The keys of the configuration the window's handlers read, with their
\* values in default_config.
default_config == [enable_tor |-> FALSE, tor_directory |-> ""]

\* What the file holds: nothing ("missing"), text json.load rejects with
\* JSONDecodeError ("corrupt"), something open() or read() fails on with
\* IOError ("unreadable"), or a JSON object ("document") with any of the
\* keys.
NoDocument == [k \in {} |-> FALSE]
Stored(document) == [state |-> "document", document |-> document]

\* dict.update: the keys of loaded replace those of config.
update(config, loaded) ==
    [k \in DOMAIN config |->
        IF k \in DOMAIN loaded THEN loaded[k] ELSE config[k]]

\* ConfigManager.save_config(config): json.dump to the file.  (An IOError
\* of the write is only printed; the file system is taken to accept it.)
save_config(w, config) == [w EXCEPT !.config_file = Stored(config)]

\* ConfigManager.config, the dict in memory.
config_of(w) == [enable_tor |-> w.enable_tor,
                 tor_directory |-> w.tor_directory]

\* ConfigManager.load_config: [config, config_file], the dict it returns
\* and the file as it leaves it.
load_config(file) ==
    IF file.state # "missing"
    THEN IF file.state = "document"
         THEN [config |-> update(default_config, file.document),
               config_file |-> file]
         ELSE [config |-> default_config, config_file |-> file]
    ELSE [config |-> default_config, config_file |-> Stored(default_config)]

\* ConfigManager.set: the key is written in memory and the whole config is
\* saved.  Keys the handlers modelled here do not read (the window's
\* size) only cause the save.
set(w, key, value) ==
    LET w1 == IF key = "enable_tor" THEN [w EXCEPT !.enable_tor = value]
              ELSE IF key = "tor_directory"
              THEN [w EXCEPT !.tor_directory = value]
              ELSE w
    IN save_config(w1, config_of(w1))

\* ----------------------------------------------------------- Tor manager
\* ConfigManager.is_tor_available: a directory is configured and holds an
\* executable named tor or tor.exe.
is_tor_available(w) == w.tor_directory # "" /\ w.tor_exe

\* is_tor_running as it would be if it did not poll the process: a handle
\* to a process that has exited counts as running.
is_tor_running_flag(w) == w.is_running /\ w.tor_process # "None"

\* TorManager.is_tor_running
is_tor_running(w) ==
    w.is_running /\ w.tor_process # "None" /\ w.tor_process = "alive"

\* stop_tor as it would be if it dropped the handle only of a process that
\* is still alive.
stop_tor_if_alive(w) ==
    [(IF w.tor_process = "alive" THEN [w EXCEPT !.tor_process = "None"]
      ELSE w) EXCEPT !.is_running = FALSE]

\* TorManager.stop_tor: with a handle, terminate (kill after the 10 s wait)
\* and drop the handle; in any case clear the flag.
stop_tor(w) ==
    [(IF w.tor_process # "None" THEN [w EXCEPT !.tor_process = "None"]
      ELSE w) EXCEPT !.is_running = FALSE]

\* What a live process does with the terminate() of stop_tor: it "exits"
\* within the 10 s of wait(timeout=10), or it "hangs" and the wait raises
\* TimeoutExpired.  (terminate() and kill() on a child of this process do
\* not raise; wait() on a process that has exited returns at once.)
StopReactions == {"exits", "hangs"}

\* stop_tor_stepped as it would be without its "except TimeoutExpired"
\* clause: the TimeoutExpired is swallowed by "except Exception: pass" and
\* the process that hangs is left running with its handle dropped.
stop_tor_stepped_unforced(w, reaction) ==
    IF w.tor_process = "None"
    THEN [w |-> stop_tor(w), trace |-> <<>>]
    ELSE IF w.tor_process = "alive" /\ reaction = "hangs"
    THEN [w |-> [stop_tor(w) EXCEPT !.orphans = w.orphans + 1],
          trace |-> <<"terminate", "wait", "TimeoutExpired">>]
    ELSE [w |-> stop_tor(w), trace |-> <<"terminate", "wait">>]

\* TorManager.stop_tor with the calls it makes on the process, in order,
\* and the exception the try block handles: [w, trace].  Every path ends
\* in the finally clause, which drops the handle.
stop_tor_stepped(w, reaction) ==
    IF w.tor_process = "None"
    THEN [w |-> stop_tor(w), trace |-> <<>>]
    ELSE IF w.tor_process = "alive" /\ reaction = "hangs"
    THEN [w |-> stop_tor(w),
          trace |-> <<"terminate", "wait", "TimeoutExpired", "kill">>]
    ELSE [w |-> stop_tor(w), trace |-> <<"terminate", "wait">>]

\* subprocess.Popen in start_tor: the handle is bound to the new process.
\* A process the handle was bound to and that is still alive keeps running
\* with nothing left to stop it.
Popen(w) ==
    [w EXCEPT !.tor_process = "alive",
              !.orphans = w.orphans
                          + (IF w.tor_process = "alive" THEN 1 ELSE 0)]

\* What the environment does to one start_tor call that reaches Popen:
\*   "spawn_error"  makedirs or Popen raises
\*   "ready"        the SOCKS port accepts a connection within the timeout
\*   "ready_exited" the port accepts a connection although the spawned
\*                  process has already exited (something else listens)
\*   "timeout"      no connection within the timeout
StartOutcomes == {"spawn_error", "ready", "ready_exited", "timeout"}

\* TorManager.start_tor; the result is [w, ok].
start_tor(w, outcome) ==
    IF w.is_running THEN [w |-> w, ok |-> TRUE]
    ELSE IF w.tor_directory = "" THEN [w |-> w, ok |-> FALSE]
    ELSE IF ~w.tor_exe THEN [w |-> w, ok |-> FALSE]
    ELSE IF outcome = "spawn_error" THEN [w |-> w, ok |-> FALSE]
    ELSE IF outcome = "timeout"
         THEN [w |-> stop_tor(Popen(w)), ok |-> FALSE]
    ELSE [w |-> [Popen(w) EXCEPT
                   !.tor_process = IF outcome = "ready" THEN "alive"
                                   ELSE "exited",
                   !.is_running = TRUE],
          ok |-> TRUE]

\* setup_tor_proxy: the Tor profile is created on first use.
setup_tor_proxy(w) == [w EXCEPT !.tor_profile = TRUE]

\* toggle_tor.  (Its processEvents() call only lets queued events run
\* before setup_tor_proxy instead of after it.)
toggle_tor(w, outcome) ==
    IF ~is_tor_available(w) THEN w
    ELSE LET new_tor == ~w.enable_tor
             w1 == set(w, "enable_tor", new_tor)
         IN IF new_tor
            THEN LET r == start_tor(w1, outcome)
                 IN IF r.ok THEN setup_tor_proxy(r.w)
                    ELSE set(r.w, "enable_tor", FALSE)
            ELSE stop_tor(w1)

\* get_web_engine_profile: [w, profile]
get_web_engine_profile(w) ==
    IF w.enable_tor /\ is_tor_running(w)
    THEN [w |-> [w EXCEPT !.tor_profile = TRUE], profile |-> "tor"]
    ELSE [w |-> w, profile |-> "normal"]

\* ------------------------------------------------------------ perform_search
\* ConfigManager.get_search_url, for the "search_engines" of the config.
get_search_url(engines, engine_name, query) ==
    IF engine_name \in DOMAIN engines
    THEN format(engines[engine_name], replace_spaces(query))
    ELSE GoogleFallback \o replace_spaces(query)

\* The URL and the tab title perform_search derives from the query.
\* ok is FALSE where the code raises IndexError (a query that starts with
\* "http" and has fewer than two "/").
resolve(query, selected_engine) ==
    IF Contains(query, <<".">>) /\ ~Contains(query, <<" ">>)
       /\ ~StartsWith(query, HttpText)
    THEN [ok |-> TRUE, url |-> HttpPrefix \o query,
          title |-> capitalize(split(query, ".")[1])]
    ELSE IF StartsWith(query, HttpText)
    THEN IF Contains(query, <<"/">>)
         THEN IF Len(split(query, "/")) >= 3
              THEN [ok |-> TRUE, url |-> query,
                    title |-> split(query, "/")[3]]
              ELSE [ok |-> FALSE, url |-> query, title |-> query]
         ELSE [ok |-> TRUE, url |-> query, title |-> query]
    ELSE [ok |-> TRUE,
          url |-> get_search_url(search_engines, selected_engine, query),
          title |-> selected_engine \o ColonSpace
                    \o SubSeq(query, 1, Min(20, Len(query))) \o DotsText]

\* The part of perform_search after the Tor checks: w is the window as
\* the checks left it, tor_on the value of "tor_enabled and tor_running"
\* computed from the locals read before them.
load_query(w, tab_id, query, selected_engine, tor_on) ==
    LET r == resolve(query, selected_engine)
        tab_info == w.tab_data[tab_id]
    IN IF ~r.ok THEN w
       ELSE IF tab_info.web_view = NoView
       THEN LET p == IF tor_on THEN get_web_engine_profile(w)
                     ELSE [w |-> w, profile |-> "normal"]
                browser == BrowserWidget(Len(w.browsers) + 1)
                w1 == [p.w EXCEPT
                         !.browsers = Append(w.browsers,
                                             [url |-> r.url,
                                              profile |-> p.profile]),
                         !.stack = (w.stack \ {tab_info.widget})
                                   \cup {browser},
                         !.stack_current = browser,
                         !.tab_data[tab_id] = [widget |-> browser,
                                               web_view |-> browser,
                                               title |-> r.title]]
            IN update_tab_title(w1, tab_id, r.title)
       ELSE LET browser == tab_info.web_view
                p == get_web_engine_profile(w)
                w1 == [p.w EXCEPT
                         !.browsers[browser.id] = [url |-> r.url,
                                                   profile |-> p.profile],
                         !.tab_data[tab_id].title = r.title]
            IN update_tab_title(setCurrentWidget(w1, browser), tab_id,
                                r.title)

\* perform_search(tab_id): text is what the tab's search input holds,
\* selected_engine what its combo box shows, reply the answer to the
\* ".onion" question, outcome what happens to a Tor start it makes.
perform_search(w, tab_id, text, selected_engine, reply, outcome) ==
    IF tab_id \notin DOMAIN w.tab_data THEN w
    ELSE IF w.tab_data[tab_id].widget.kind # "home" THEN w
    ELSE LET query == strip(text)
             tor_enabled == w.enable_tor
             tor_running == is_tor_running(w)
             tor_on == tor_enabled /\ tor_running
         IN IF query = <<>> THEN w
            ELSE IF tor_enabled /\ ~tor_running THEN w
            ELSE IF Contains(query, OnionText) /\ ~tor_on
            THEN IF reply = "Yes"
                 THEN IF is_tor_available(w)
                      THEN LET r == start_tor(set(w, "enable_tor", TRUE),
                                              outcome)
                           IN IF r.ok
                              THEN load_query(setup_tor_proxy(r.w), tab_id,
                                              query, selected_engine, tor_on)
                              ELSE r.w
                      ELSE w
                 ELSE w
            ELSE load_query(w, tab_id, query, selected_engine, tor_on)

\* ----------------------------------------------------------------- Init
\* init_ui: addTab("Home"), addTab("+"), then create_home_tab; the first tab
\* added is the current one, and the first widget added to the stack is the
\* current widget.
init_ui ==
    [tab_bar |-> <<[tab |-> 0, text |-> HomeText],
                   [tab |-> Affordance, text |-> PlusText]>>,
     currentIndex |-> 0,
     next_tab_id |-> 1,
     tab_id_mapping |-> [p \in {0} |-> 0],
     tab_data |-> [t \in {0} |-> [widget |-> HomeWidget(0),
                                  web_view |-> NoView, title |-> HomeText]],
     stack |-> {HomeWidget(0)},
     stack_current |-> HomeWidget(0),
     browsers |-> <<>>]

\* TorManager.__init__
TorManager_init ==
    [tor_process |-> "None", is_running |-> FALSE, tor_profile |-> FALSE,
     orphans |-> 0]

InitTabs ==
    /\ tab_bar = init_ui.tab_bar
    /\ currentIndex = init_ui.currentIndex
    /\ next_tab_id = init_ui.next_tab_id
    /\ tab_id_mapping = init_ui.tab_id_mapping
    /\ tab_data = init_ui.tab_data
    /\ stack = init_ui.stack
    /\ stack_current = init_ui.stack_current
    /\ browsers = init_ui.browsers
    /\ moves = 0
    /\ again = NoCall
    /\ pc = AtEvents
    /\ last = NoLast

InitTorManager ==
    /\ tor_process = TorManager_init.tor_process
    /\ is_running = TorManager_init.is_running
    /\ tor_profile = TorManager_init.tor_profile
    /\ orphans = TorManager_init.orphans

\* First start: no configuration file, which load_config then writes.
Init ==
    /\ InitTabs
    /\ InitTorManager
    /\ enable_tor = default_config.enable_tor
    /\ tor_directory = default_config.tor_directory
    /\ tor_exe = FALSE
    /\ config_file = Stored(default_config)

\* A start with a configuration file an earlier run left.
InitConfigured ==
    /\ InitTabs
    /\ InitTorManager
    /\ enable_tor \in BOOLEAN
    /\ \E c \in {<<"", FALSE>>, <<"tor", FALSE>>, <<"tor", TRUE>>} :
           tor_directory = c[1] /\ tor_exe = c[2]
    /\ config_file = Stored([enable_tor |-> enable_tor,
                             tor_directory |-> tor_directory])

Apply(w) ==
    /\ tab_bar' = w.tab_bar
    /\ currentIndex' = w.currentIndex
    /\ tab_id_mapping' = w.tab_id_mapping
    /\ tab_data' = w.tab_data
    /\ next_tab_id' = w.next_tab_id
    /\ stack' = w.stack
    /\ stack_current' = w.stack_current
    /\ browsers' = w.browsers
    /\ enable_tor' = w.enable_tor
    /\ tor_directory' = w.tor_directory
    /\ tor_exe' = w.tor_exe
    /\ tor_process' = w.tor_process
    /\ is_running' = w.is_running
    /\ tor_profile' = w.tor_profile
    /\ orphans' = w.orphans
    /\ config_file' = w.config_file

\* Positions of the strip, and those that hold a browser tab.
Positions == 0..(Len(tab_bar) - 1)
RealPositions == {p \in Positions : tab_bar[p + 1].tab # Affordance}
LiveTabs == {t \in DOMAIN tab_data : tab_data[t].web_view # NoView}

\* What the user types into a search input.
QHost == <<"a", ".", "i", "o">>
QPlus == <<"+", ".", "i", "o">>
QWords == <<" ", "a", " ", "b">>
QHttp == <<"h", "t", "t", "p", ":", "/", "/", "x", "/", "p">>
QOnion == <<"x", ".", "o", "n", "i", "o", "n">>
QBlank == <<" ">>
Queries == {QHost, QPlus, QWords, QBlank}
BrowserQueries == {QHost, QOnion}

\* ---------------------------------------------------------------- actions
\* The user clicks the tab at index: setCurrentIndex(index) emits
\* currentChanged(index) when the index changes, which runs on_tab_changed.
SelectPosition(index) ==
    /\ index \in Positions
    /\ index # currentIndex
    /\ Apply(on_tab_changed([Window EXCEPT !.currentIndex = index], index))
    /\ again' = NoCall
    /\ last' = NoLast
    /\ UNCHANGED <<pc, moves>>

\* The user drags the tab at from_index to to_index: QTabBar.moveTab, then
\* tabMoved(from_index, to_index) runs on_tab_moved.
MoveTab(from_index, to_index) ==
    /\ from_index \in Positions /\ to_index \in Positions
    /\ from_index # to_index
    /\ moves' = moves + 1
    /\ again' = NoCall
    /\ last' = NoLast
    /\ UNCHANGED pc
    /\ Apply(on_tab_moved(moveTab(Window, from_index, to_index),
                          from_index, to_index))

\* Return pressed or Start clicked in the Home widget of tab_id.
PerformSearch(tab_id, text, selected_engine, reply, outcome) ==
    /\ tab_id \in 0..next_tab_id
    /\ tab_id \in LiveTabs \/ Cardinality(LiveTabs) < MaxLive
    /\ Apply(perform_search(Window, tab_id, text, selected_engine, reply,
                            outcome))
    /\ again' = IF tab_id \in LiveTabs
                THEN [tab_id |-> tab_id, text |-> text,
                      selected_engine |-> selected_engine]
                ELSE NoCall
    /\ last' = NoLast
    /\ UNCHANGED <<pc, moves>>

\* The Tor button of a Home widget is clicked.
ToggleTor(outcome) ==
    /\ Apply(toggle_tor(Window, outcome))
    /\ again' = NoCall
    /\ last' = NoLast
    /\ UNCHANGED <<pc, moves>>

\* The Tor process exits on its own.
TorExits ==
    /\ tor_process = "alive"
    /\ tor_process' = "exited"
    /\ again' = NoCall
    /\ last' = NoLast
    /\ UNCHANGED <<tabvars, config_file, enable_tor, tor_directory, tor_exe, is_running,
                   tor_profile, orphans, pc, moves>>

\* A click on a tab labelled "+" makes a tab: no more than limit of them.
CanSelect(index, limit) ==
    tabText(Window, index) = PlusText => next_tab_id < limit
Select == \E index \in Positions :
              CanSelect(index, MaxTabs) /\ SelectPosition(index)
SelectBrowser == \E index \in Positions :
                     CanSelect(index, BrowserTabs) /\ SelectPosition(index)
SelectStrip == \E index \in Positions :
                   CanSelect(index, StripTabs) /\ SelectPosition(index)
\* Drags of browser tabs among themselves: the "+" tab stays last.
Move == \E from_index, to_index \in RealPositions :
            moves < MaxMoves /\ MoveTab(from_index, to_index)
MoveStrip == \E from_index, to_index \in RealPositions :
                 moves < StripMoves /\ MoveTab(from_index, to_index)
\* Searches from a Home widget, and calls for a tab that is already live.
Search == \E tab_id \in (0..MaxTabs) \ LiveTabs, text \in Queries,
             selected_engine \in DOMAIN search_engines :
              PerformSearch(tab_id, text, selected_engine, "No", "timeout")
SearchAgain == \E tab_id \in LiveTabs, text \in Queries,
                  selected_engine \in DOMAIN search_engines :
                   PerformSearch(tab_id, text, selected_engine, "No",
                                 "timeout")
SearchTor == \E tab_id \in (0..MaxTabs) \ LiveTabs,
                text \in BrowserQueries, reply \in {"Yes", "No"},
                outcome \in StartOutcomes :
                 PerformSearch(tab_id, text, Google, reply, outcome)
SearchAgainTor == \E tab_id \in LiveTabs, outcome \in StartOutcomes :
                      PerformSearch(tab_id, QOnion, Google, "Yes", outcome)
Toggle == \E outcome \in StartOutcomes : ToggleTor(outcome)

\* The tab strip and the searches of a first start (Tor not configured).
Next == Select \/ Move \/ Search

Spec == Init /\ [][Next]_vars

\* The whole window, started with any configuration.
NextBrowser ==
    SelectBrowser \/ Move \/ SearchTor \/ SearchAgainTor \/ Toggle \/ TorExits

SpecBrowser == InitConfigured /\ [][NextBrowser]_vars

\* The tab strip alone.
NextStrip == SelectStrip \/ MoveStrip

SpecStrip == Init /\ [][NextStrip]_vars

\* The tab strip with perform_search also called for tabs that are live.
NextAgain == Next \/ SearchAgain

SpecAgain == Init /\ [][NextAgain]_vars

\* The tab strip with drags of any tab to any position: QTabBar.setMovable
\* makes every tab draggable, the "+" tab too.
SelectDrag == \E index \in Positions :
                  CanSelect(index, DragTabs) /\ SelectPosition(index)
MoveDrag == \E from_index, to_index \in Positions :
                moves < DragMoves /\ MoveTab(from_index, to_index)
NextDrag == SelectDrag \/ MoveDrag

SpecDrag == Init /\ [][NextDrag]_vars

\* ------------------------------------------- the Tor manager, step by step
\* start_tor blocks its caller in _wait_for_tor_connection.  Below, a
\* handler that reaches the wait is three kinds of step: the handler up to
\* Popen, one step per iteration of the wait loop, and the rest of the
\* handler with the last iteration.  The window has one thread: while pc
\* is in the wait no other handler runs.

\* _wait_for_tor_connection(timeout=30)
timeout == 30

\* What one connect_ex of the wait loop can give, and the whole seconds it
\* can take (the socket's own timeout is 1 s).
AttemptResults == {"connected", "refused", "raised"}
AttemptSecs == {0, 1}

\* The TorManager's fields and the configuration it reads.
Manager(w) == [tor_process |-> w.tor_process, is_running |-> w.is_running,
               orphans |-> w.orphans, tor_directory |-> w.tor_directory,
               tor_exe |-> w.tor_exe]

DirectoryReason == "Tor directory not configured"
ExecutableReason == "Tor executable not found"
SpawnReason == "Failed to start Tor: "
TimeoutReason == "Tor failed to start"
StoppedReason == "Tor stopped"
RunningReason == "Tor is running"

\* start_tor_spawn as it would be without "if self.is_running: return True".
start_tor_spawn_again(w, spawn) ==
    IF w.tor_directory = ""
    THEN [w |-> w, waits |-> FALSE, ok |-> FALSE,
          emitted |-> <<Notice(FALSE, DirectoryReason)>>, spawned |-> 0]
    ELSE IF ~w.tor_exe
    THEN [w |-> w, waits |-> FALSE, ok |-> FALSE,
          emitted |-> <<Notice(FALSE, ExecutableReason)>>, spawned |-> 0]
    ELSE IF spawn = "raises"
    THEN [w |-> w, waits |-> FALSE, ok |-> FALSE,
          emitted |-> <<Notice(FALSE, SpawnReason)>>, spawned |-> 0]
    ELSE [w |-> Popen(w), waits |-> TRUE, ok |-> FALSE, emitted |-> <<>>,
          spawned |-> 1]

\* start_tor_spawn as it would be if it took tor_directory itself for the
\* executable when it finds none there.
start_tor_spawn_unchecked(w, spawn) ==
    IF w.is_running
    THEN [w |-> w, waits |-> FALSE, ok |-> TRUE, emitted |-> <<>>,
          spawned |-> 0]
    ELSE IF w.tor_directory = ""
    THEN [w |-> w, waits |-> FALSE, ok |-> FALSE,
          emitted |-> <<Notice(FALSE, DirectoryReason)>>, spawned |-> 0]
    ELSE IF spawn = "raises"
    THEN [w |-> w, waits |-> FALSE, ok |-> FALSE,
          emitted |-> <<Notice(FALSE, SpawnReason)>>, spawned |-> 0]
    ELSE [w |-> Popen(w), waits |-> TRUE, ok |-> FALSE, emitted |-> <<>>,
          spawned |-> 1]

\* start_tor_spawn as it would be if its "except" only returned False.
start_tor_spawn_quiet(w, spawn) ==
    IF w.is_running
    THEN [w |-> w, waits |-> FALSE, ok |-> TRUE, emitted |-> <<>>,
          spawned |-> 0]
    ELSE IF w.tor_directory = ""
    THEN [w |-> w, waits |-> FALSE, ok |-> FALSE,
          emitted |-> <<Notice(FALSE, DirectoryReason)>>, spawned |-> 0]
    ELSE IF ~w.tor_exe
    THEN [w |-> w, waits |-> FALSE, ok |-> FALSE,
          emitted |-> <<Notice(FALSE, ExecutableReason)>>, spawned |-> 0]
    ELSE IF spawn = "raises"
    THEN [w |-> w, waits |-> FALSE, ok |-> FALSE, emitted |-> <<>>,
          spawned |-> 0]
    ELSE [w |-> Popen(w), waits |-> TRUE, ok |-> FALSE, emitted |-> <<>>,
          spawned |-> 1]

\* start_tor up to the wait: waits says whether the call goes on into
\* _wait_for_tor_connection, ok is what it returns when it does not.
\* spawn is what makedirs and Popen do: "ok" or "raises".
start_tor_spawn(w, spawn) ==
    IF w.is_running
    THEN [w |-> w, waits |-> FALSE, ok |-> TRUE, emitted |-> <<>>,
          spawned |-> 0]
    ELSE IF w.tor_directory = ""
    THEN [w |-> w, waits |-> FALSE, ok |-> FALSE,
          emitted |-> <<Notice(FALSE, DirectoryReason)>>, spawned |-> 0]
    ELSE IF ~w.tor_exe
    THEN [w |-> w, waits |-> FALSE, ok |-> FALSE,
          emitted |-> <<Notice(FALSE, ExecutableReason)>>, spawned |-> 0]
    ELSE IF spawn = "raises"
    THEN [w |-> w, waits |-> FALSE, ok |-> FALSE,
          emitted |-> <<Notice(FALSE, SpawnReason)>>, spawned |-> 0]
    ELSE [w |-> Popen(w), waits |-> TRUE, ok |-> FALSE, emitted |-> <<>>,
          spawned |-> 1]

\* wait_for_tor_connection as it would be with "<=" for "<" in the loop
\* condition: one more attempt is made when the ceiling has been reached.
wait_for_tor_connection_inclusive(elapsed, result, secs) ==
    IF ~(elapsed <= timeout)
    THEN [done |-> TRUE, ok |-> FALSE, elapsed |-> elapsed]
    ELSE IF result = "connected"
    THEN [done |-> TRUE, ok |-> TRUE, elapsed |-> elapsed + secs]
    ELSE [done |-> FALSE, ok |-> FALSE, elapsed |-> elapsed + secs + 1]

\* wait_for_tor_connection as it would be without the time.sleep(1) between
\* attempts.
wait_for_tor_connection_unslept(elapsed, result, secs) ==
    IF ~(elapsed < timeout)
    THEN [done |-> TRUE, ok |-> FALSE, elapsed |-> elapsed]
    ELSE IF result = "connected"
    THEN [done |-> TRUE, ok |-> TRUE, elapsed |-> elapsed + secs]
    ELSE [done |-> FALSE, ok |-> FALSE, elapsed |-> elapsed + secs]
\* One pass through the loop of _wait_for_tor_connection, from its head,
\* elapsed seconds after start_time.
wait_for_tor_connection(elapsed, result, secs) ==
    IF ~(elapsed < timeout)
    THEN [done |-> TRUE, ok |-> FALSE, elapsed |-> elapsed]
    ELSE IF result = "connected"
    THEN [done |-> TRUE, ok |-> TRUE, elapsed |-> elapsed + secs]
    ELSE [done |-> FALSE, ok |-> FALSE, elapsed |-> elapsed + secs + 1]

\* start_tor_waited as it would be without the stop_tor() of line 99: a
\* start that timed out keeps the handle of the process it spawned.
start_tor_waited_unstopped(w, ready) ==
    IF ready
    THEN [w |-> [w EXCEPT !.is_running = TRUE], ok |-> TRUE,
          emitted |-> <<Notice(TRUE, RunningReason)>>]
    ELSE [w |-> w, ok |-> FALSE,
          emitted |-> <<Notice(FALSE, TimeoutReason)>>]
\* start_tor after the wait has returned ready.
start_tor_waited(w, ready) ==
    IF ready
    THEN [w |-> [w EXCEPT !.is_running = TRUE], ok |-> TRUE,
          emitted |-> <<Notice(TRUE, RunningReason)>>]
    ELSE [w |-> stop_tor(w), ok |-> FALSE,
          emitted |-> <<Notice(FALSE, StoppedReason),
                        Notice(FALSE, TimeoutReason)>>]

\* toggle_tor after its start_tor call has returned success.
toggle_tor_started(w, success) ==
    IF success THEN setup_tor_proxy(w) ELSE set(w, "enable_tor", FALSE)

\* perform_search after its start_tor call has returned success.
perform_search_started(w, success, tab_id, query, selected_engine, tor_on) ==
    IF success
    THEN load_query(setup_tor_proxy(w), tab_id, query, selected_engine,
                    tor_on)
    ELSE w

\* perform_search gets as far as its start_tor call.
perform_search_starts(w, tab_id, text, reply) ==
    /\ tab_id \in DOMAIN w.tab_data
    /\ w.tab_data[tab_id].widget.kind = "home"
    /\ strip(text) # <<>>
    /\ ~(w.enable_tor /\ ~is_tor_running(w))
    /\ Contains(strip(text), OnionText)
    /\ ~(w.enable_tor /\ is_tor_running(w))
    /\ reply = "Yes"
    /\ is_tor_available(w)

\* The rest of the handler that called start_tor.
started(w, caller, success, tab_id, query, selected_engine, tor_on) ==
    IF caller = "toggle_tor" THEN toggle_tor_started(w, success)
    ELSE IF caller = "perform_search"
    THEN perform_search_started(w, success, tab_id, query, selected_engine,
                                tor_on)
    ELSE w

\* closeEvent: stop_tor, then the window's size is written to the config.
\* The result is [w, trace].
closeEvent(w, reaction) ==
    LET s == stop_tor_stepped(w, reaction)
    IN [w |-> set(set(s.w, "window_width", 0), "window_height", 0),
        trace |-> s.trace]

StartRecord(caller, ok, emitted, spawned, connected_at, before) ==
    [op |-> "start", caller |-> caller, ok |-> ok, emitted |-> emitted,
     spawned |-> spawned, connected_at |-> connected_at, before |-> before,
     trace |-> <<>>]
StopRecord(caller, before, trace) ==
    [op |-> "stop", caller |-> caller, ok |-> TRUE,
     emitted |-> <<Notice(FALSE, StoppedReason)>>, spawned |-> 0,
     connected_at |-> -1, before |-> before, trace |-> trace]

\* A handler calls start_tor on window w (as the handler has left it so
\* far): the call returns at once and the handler finishes, or the thread
\* goes into the wait.
CallStart(w, caller, spawn, tab_id, query, selected_engine, tor_on) ==
    LET s == start_tor_spawn(w, spawn)
    IN IF s.waits
       THEN /\ Apply(s.w)
            /\ pc' = [at |-> "wait", caller |-> caller, tab_id |-> tab_id,
                      query |-> query, selected_engine |-> selected_engine,
                      tor_on |-> tor_on, elapsed |-> 0,
                      before |-> Manager(w)]
            /\ last' = NoLast
       ELSE /\ Apply(started(s.w, caller, s.ok, tab_id, query,
                             selected_engine, tor_on))
            /\ pc' = AtEvents
            /\ last' = StartRecord(caller, s.ok, s.emitted, s.spawned, -1,
                                   Manager(w))

\* One iteration of the wait loop; with the last one, start_tor returns and
\* the handler that called it runs to its end.  last.connected_at is the
\* time at which the port answered (or would have answered) the attempt.
WaitStep(result, secs) ==
    /\ pc.at = "wait"
    /\ LET r == wait_for_tor_connection(pc.elapsed, result, secs)
           e == start_tor_waited(Window, r.ok)
       IN IF r.done
          THEN /\ Apply(started(e.w, pc.caller, e.ok, pc.tab_id, pc.query,
                                pc.selected_engine, pc.tor_on))
               /\ pc' = AtEvents
               /\ last' = StartRecord(pc.caller, e.ok, e.emitted, 1,
                                      IF result = "connected"
                                      THEN pc.elapsed ELSE -1,
                                      pc.before)
          ELSE /\ pc' = [pc EXCEPT !.elapsed = r.elapsed]
               /\ UNCHANGED <<tabvars, torvars, last>>
    /\ again' = NoCall
    /\ UNCHANGED moves

\* TorManager.start_tor, called by any user of the manager.
StartTor(spawn) ==
    /\ pc.at = "events"
    /\ CallStart(Window, "start_tor", spawn, -1, <<>>, <<>>, FALSE)
    /\ again' = NoCall
    /\ UNCHANGED moves

\* TorManager.stop_tor, called by any user of the manager.
StopTor(reaction) ==
    /\ pc.at = "events"
    /\ LET s == stop_tor_stepped(Window, reaction)
       IN /\ Apply(s.w)
          /\ last' = StopRecord("stop_tor", Manager(Window), s.trace)
    /\ again' = NoCall
    /\ UNCHANGED <<pc, moves>>

\* The Tor button of a Home widget is clicked: toggle_tor.
ToggleTorStep(spawn, reaction) ==
    /\ pc.at = "events"
    /\ IF ~is_tor_available(Window)
       THEN UNCHANGED <<tabvars, torvars, pc>> /\ last' = NoLast
       ELSE IF enable_tor
       THEN /\ LET s == stop_tor_stepped(set(Window, "enable_tor", FALSE),
                                         reaction)
               IN /\ Apply(s.w)
                  /\ last' = StopRecord("toggle_tor", Manager(Window),
                                        s.trace)
            /\ UNCHANGED pc
       ELSE CallStart(set(Window, "enable_tor", TRUE), "toggle_tor",
                      spawn, -1, <<>>, <<>>, FALSE)
    /\ again' = NoCall
    /\ UNCHANGED moves

\* Return pressed or Start clicked in the Home widget of tab_id.
PerformSearchStep(tab_id, text, selected_engine, reply, spawn) ==
    /\ pc.at = "events"
    /\ tab_id \in 0..next_tab_id
    /\ tab_id \in LiveTabs \/ Cardinality(LiveTabs) < MaxLive
    /\ IF perform_search_starts(Window, tab_id, text, reply)
       THEN CallStart(set(Window, "enable_tor", TRUE), "perform_search",
                      spawn, tab_id, strip(text), selected_engine,
                      enable_tor /\ is_tor_running(Window))
       ELSE /\ Apply(perform_search(Window, tab_id, text, selected_engine,
                                    reply, "timeout"))
            /\ last' = NoLast
            /\ UNCHANGED pc
    /\ again' = NoCall
    /\ UNCHANGED moves

\* The window is closed: closeEvent, and the event loop ends.
CloseEvent(reaction) ==
    /\ pc.at = "events"
    /\ LET s == closeEvent(Window, reaction)
       IN /\ Apply(s.w)
          /\ last' = StopRecord("closeEvent", Manager(Window), s.trace)
    /\ pc' = [AtEvents EXCEPT !.at = "closed"]
    /\ again' = NoCall
    /\ UNCHANGED moves

Spawns == {"ok", "raises"}
Wait == \E result \in AttemptResults, secs \in AttemptSecs :
            WaitStep(result, secs)
Start == \E spawn \in Spawns : StartTor(spawn)
Stop == \E reaction \in StopReactions : StopTor(reaction)
ToggleStep == \E spawn \in Spawns, reaction \in StopReactions :
                  ToggleTorStep(spawn, reaction)
SearchStep == \E tab_id \in 0..BrowserTabs, reply \in {"Yes", "No"},
                 spawn \in Spawns :
                  PerformSearchStep(tab_id, QOnion, Google, reply, spawn)
\* A tab event: the event loop must be running to deliver it.
TabEvent == pc.at = "events" /\ SelectBrowser
Exits == pc.at # "closed" /\ TorExits
Close == \E reaction \in StopReactions : CloseEvent(reaction)

\* The Tor manager under any order of calls, with the window's handlers
\* that use it.
NextTor ==
    Wait \/ Start \/ Stop \/ ToggleStep \/ SearchStep \/ TabEvent \/ Exits
    \/ Close

SpecTor == InitConfigured /\ [][NextTor]_vars


\* The Tor manager alone.  The thread that runs the wait loop keeps
\* running: connect_ex returns within its 1 s timeout and sleep(1) returns.
NextWait == Wait \/ Start \/ Stop \/ Exits

SpecWait == InitConfigured /\ [][NextWait]_vars /\ WF_vars(Wait)

\* ------------------------------------------------- the program is started
\* What the file can hold when the program is started.
Documents ==
    {[k \in K |-> IF k = "enable_tor" THEN c[1] ELSE c[2]] :
        K \in SUBSET DOMAIN default_config, c \in BOOLEAN \X {"", "tor"}}
Files ==
    {[state |-> s, document |-> NoDocument] :
        s \in {"missing", "corrupt", "unreadable"}}
    \cup {Stored(d) : d \in Documents}

\* Before CyberBrowser(): there is no window yet, only the file and what
\* tor_directory would hold.
InitStart ==
    /\ config_file \in Files
    /\ tor_exe \in BOOLEAN
    /\ pc = [AtEvents EXCEPT !.at = "start"]
    /\ tab_bar = <<>>
    /\ currentIndex = -1
    /\ next_tab_id = 0
    /\ tab_id_mapping = <<>>
    /\ tab_data = <<>>
    /\ stack = {}
    /\ stack_current = NoView
    /\ browsers = <<>>
    /\ enable_tor = FALSE
    /\ tor_directory = ""
    /\ InitTorManager
    /\ moves = 0
    /\ again = NoCall
    /\ last = NoLast

\* CyberBrowser.__init__: ConfigManager() loads the file, TorManager() and
\* init_ui build the rest.
Construct ==
    /\ pc.at = "start"
    /\ LET r == load_config(config_file)
       IN Apply([tab_bar |-> init_ui.tab_bar,
                 currentIndex |-> init_ui.currentIndex,
                 tab_id_mapping |-> init_ui.tab_id_mapping,
                 tab_data |-> init_ui.tab_data,
                 next_tab_id |-> init_ui.next_tab_id,
                 stack |-> init_ui.stack,
                 stack_current |-> init_ui.stack_current,
                 browsers |-> init_ui.browsers,
                 enable_tor |-> r.config.enable_tor,
                 tor_directory |-> r.config.tor_directory,
                 tor_exe |-> tor_exe,
                 tor_process |-> TorManager_init.tor_process,
                 is_running |-> TorManager_init.is_running,
                 tor_profile |-> TorManager_init.tor_profile,
                 orphans |-> TorManager_init.orphans,
                 config_file |-> r.config_file])
    /\ pc' = AtEvents
    /\ last' = NoLast
    /\ again' = NoCall
    /\ UNCHANGED moves

ToggleBuilt == pc.at = "events" /\ Toggle

NextStart == Construct \/ ToggleBuilt \/ TabEvent \/ Close

SpecStart == InitStart /\ [][NextStart]_vars
\* ------------------------------------------------------ what can be typed
\* Longest text typed after an optional "http", "http://" or "https://".
MaxQuery == 3
TypedChars == {"a", ".", " ", "/"}
HttpsPrefix == <<"h", "t", "t", "p", "s", ":", "/", "/">>
TypedTexts ==
    {pre \o body :
        pre \in {<<>>, HttpText, HttpPrefix, HttpsPrefix},
        body \in UNION {[1..n -> TypedChars] : n \in 0..MaxQuery}}

SearchRecord(tab_id, text, selected_engine) ==
    [NoLast EXCEPT !.op = "search",
                   !.before = [tab_id |-> tab_id, text |-> text,
                               selected_engine |-> selected_engine]]

\* Return pressed in the Home widget of tab_id with text typed.
SearchTyped(tab_id, text, selected_engine) ==
    /\ pc.at = "events"
    /\ tab_id \in DOMAIN tab_data
    /\ tab_data[tab_id].widget.kind = "home"
    /\ Cardinality(LiveTabs) < MaxLive
    /\ Apply(perform_search(Window, tab_id, text, selected_engine, "No",
                            "timeout"))
    /\ last' = SearchRecord(tab_id, text, selected_engine)
    /\ again' = NoCall
    /\ UNCHANGED <<pc, moves>>

SearchUrl == \E tab_id \in 0..MaxTabs, text \in TypedTexts,
                selected_engine \in DOMAIN search_engines :
                 SearchTyped(tab_id, text, selected_engine)

\* Searches typed into the Home widgets of a first start.
NextUrl == SearchUrl

SpecUrl == Init /\ [][NextUrl]_vars


\* --------------------------------------------------- titles on the strip
\* Host names of 1..MaxTitle letters before ".a": the title of the tab is
\* the capitalized host name.
TitleTexts == {[i \in 1..n |-> "a"] \o <<".", "a">> : n \in 1..MaxTitle}
SearchTitle == \E tab_id \in 0..MaxTabs, text \in TitleTexts :
                   SearchTyped(tab_id, text, Google)
NextTitle == Select \/ SearchTitle

SpecTitle == Init /\ [][NextTitle]_vars
\* ================================================================ claims
\* The identity of the tab the strip shows at position p.
TabAt(p) == tab_bar[p + 1].tab
IsAffordance(p) == p \in Positions /\ TabAt(p) = Affordance
Injective(f) == \A a, b \in DOMAIN f : f[a] = f[b] => a = b

\* C1: after any sequence of tab creations and drags of browser tabs, the
\* keys of tab_id_mapping are exactly 0..N-1 for the N tabs, and the map is
\* a bijection from them onto the tabs' identities.
C1_MappingIsBijection ==
    /\ DOMAIN tab_id_mapping = 0..(Cardinality(DOMAIN tab_data) - 1)
    /\ Injective(tab_id_mapping)
    /\ {tab_id_mapping[p] : p \in DOMAIN tab_id_mapping} = DOMAIN tab_data

\* C2: a drag from from_index to to_index, both positions of browser tabs
\* and at least three tabs in the strip, leaves the identity that was
\* mapped at from_index mapped at to_index, and every identity that was
\* mapped between the two (to_index included) one position closer to
\* from_index.
MoveShifts(m, n, from_index, to_index) ==
    /\ from_index \in DOMAIN m
    /\ to_index \in DOMAIN n
    /\ n[to_index] = m[from_index]
    /\ \A p \in Positions :
          /\ (from_index < p /\ p <= to_index) =>
                 p \in DOMAIN m /\ p - 1 \in DOMAIN n /\ n[p - 1] = m[p]
          /\ (to_index <= p /\ p < from_index) =>
                 p \in DOMAIN m /\ p + 1 \in DOMAIN n /\ n[p + 1] = m[p]

C2_MoveShiftsBetween ==
    [][\A from_index, to_index \in 0..StripTabs :
          (/\ from_index \in RealPositions
           /\ to_index \in RealPositions
           /\ Cardinality(RealPositions) >= 3
           /\ MoveTab(from_index, to_index))
          => MoveShifts(tab_id_mapping, tab_id_mapping',
                        from_index, to_index)]_vars

\* C3: in every reachable state, for positions i and j of browser tabs,
\* the drag i -> j followed at once by the drag j -> i leaves
\* tab_id_mapping as it was.
C3_MoveBackRestores ==
    \A i, j \in RealPositions :
        i # j =>
        on_tab_moved(on_tab_moved(Window, i, j), j, i).tab_id_mapping
            = tab_id_mapping

\* C4: a click on a position p that holds a browser tab makes p the
\* current position, resolves p to the identity of the tab the strip shows
\* there, and makes that tab's widget the visible one.
C4_SelectShowsTabAtPosition ==
    [][\A p \in 0..StripTabs :
          (p \in RealPositions /\ SelectPosition(p))
          => /\ tab_bar' = tab_bar
             /\ currentIndex' = p
             /\ p \in DOMAIN tab_id_mapping'
             /\ tab_id_mapping'[p] = TabAt(p)
             /\ stack_current' = tab_data'[TabAt(p)].widget]_vars

\* C5: a click on the "+" tab makes exactly one new tab, and afterwards the
\* new tab is the current tab of the strip and its Home widget is the
\* visible widget.
C5_AffordanceCreatesOneTab ==
    [][\A p \in 0..StripTabs :
          (IsAffordance(p) /\ SelectPosition(p))
          => /\ next_tab_id' = next_tab_id + 1
             /\ Len(tab_bar') = Len(tab_bar) + 1
             /\ DOMAIN tab_data' = DOMAIN tab_data \cup {next_tab_id}
             /\ tab_bar'[currentIndex' + 1].tab = next_tab_id
             /\ next_tab_id \in DOMAIN tab_data'
             /\ tab_data'[next_tab_id].web_view = NoView
             /\ stack_current' = HomeWidget(next_tab_id)
             /\ stack_current' \in stack']_vars

\* C5, witness: the newest tab is a second or later one made by a click on
\* "+", it is the current tab and its Home widget is the visible widget.
C5_Witness ==
    /\ next_tab_id >= 3
    /\ tab_bar[currentIndex + 1].tab = next_tab_id - 1
    /\ stack_current = HomeWidget(next_tab_id - 1)

\* C6: creating a tab gives it the next unused identity, maps it to the
\* position that was the strip's count - 1, moves every identity mapped at
\* that position or a later one up by one, and leaves every identity
\* mapped at an earlier position where it was.
C6_CreateShiftsFromInsertionPoint ==
    [][\A p \in 0..StripTabs :
          (IsAffordance(p) /\ SelectPosition(p))
          => LET at == Len(tab_bar) - 1
                 m == tab_id_mapping
                 n == tab_id_mapping'
             IN /\ next_tab_id \notin DOMAIN tab_data
                /\ at \in DOMAIN n /\ n[at] = next_tab_id
                /\ tab_bar'[at + 1].tab = next_tab_id
                /\ \A k \in DOMAIN m :
                      IF k >= at THEN k + 1 \in DOMAIN n /\ n[k + 1] = m[k]
                      ELSE k \in DOMAIN n /\ n[k] = m[k]
                /\ Cardinality(DOMAIN n) = Cardinality(DOMAIN m) + 1]_vars

\* C6, witness: a tab was created while an identity was mapped at the
\* insertion point or after it, and that identity now sits after the new
\* tab's position.
C6_Witness ==
    \E p, k \in DOMAIN tab_id_mapping :
        /\ tab_id_mapping[p] = next_tab_id - 1
        /\ p = Len(tab_bar) - 2
        /\ k > p
        /\ next_tab_id = 4

\* C7: identities are handed out in increasing order and never reused:
\* every identity in use is below next_tab_id, no two positions of the
\* strip or of tab_id_mapping carry the same identity, and no step changes
\* the identity of a tab that exists or hands out one that was in use.
IdentitiesDistinct ==
    /\ \A t \in DOMAIN tab_data : 0 <= t /\ t < next_tab_id
    /\ \A p, q \in RealPositions : TabAt(p) = TabAt(q) => p = q
    /\ {TabAt(p) : p \in RealPositions} = DOMAIN tab_data
    /\ Injective(tab_id_mapping)
    /\ \A p \in DOMAIN tab_id_mapping : tab_id_mapping[p] \in DOMAIN tab_data
    /\ \A t \in DOMAIN tab_data :
          tab_data[t].widget.kind = "home" => tab_data[t].widget.id = t

IdentitiesKept ==
    /\ next_tab_id' >= next_tab_id
    /\ DOMAIN tab_data \subseteq DOMAIN tab_data'
    /\ \A t \in DOMAIN tab_data' \ DOMAIN tab_data : t >= next_tab_id
    /\ {TabAt(p) : p \in RealPositions}
           \subseteq {tab_bar'[i].tab : i \in 1..Len(tab_bar')}

C7_IdentitiesNeverReused == []IdentitiesDistinct /\ [][IdentitiesKept]_vars

\* C7, witness: three tabs exist, one has been dragged and one has been
\* promoted, so each kind of operation has acted on the identities.
C7_Witness ==
    /\ next_tab_id = 3
    /\ moves > 0
    /\ LiveTabs # {}
    /\ \E p \in RealPositions : TabAt(p) # p

\* C8: promotion is one-way: a tab that has a live view keeps that same
\* view in every later state, whatever the window does next.
C8_PromotionOneWay ==
    [][\A t \in DOMAIN tab_data :
          tab_data[t].web_view # NoView
          => /\ t \in DOMAIN tab_data'
             /\ tab_data'[t].web_view = tab_data[t].web_view
             /\ tab_data'[t].widget = tab_data[t].web_view]_vars

\* C8, witness: a tab was promoted while Tor ran (its view has the Tor
\* profile), Tor was stopped afterwards and another tab's Home widget was
\* brought up; the promoted tab is still live.
C8_Witness ==
    /\ \E t \in LiveTabs : browsers[tab_data[t].web_view.id].profile = "tor"
    /\ ~is_running
    /\ stack_current.kind = "home"

\* C9: a perform_search call for a tab that is already live leaves one
\* live view for the tab and gives that view the new URL and the tab the
\* new title.
C9_SearchAgainUpdates ==
    (again # NoCall /\ strip(again.text) # <<>>)
    => LET r == resolve(strip(again.text), again.selected_engine)
           t == again.tab_id
       IN /\ tab_data[t].web_view # NoView
          /\ Cardinality({v \in stack : v.kind = "browser"})
                 = Cardinality(LiveTabs)
          /\ browsers[tab_data[t].web_view.id].url = r.url
          /\ tab_data[t].title = r.title

\* C10: a promotion, which sets the title of its tab, changes the label of
\* the strip at the position where that tab is and no other label.
C10_TitleOnlyAtOwnPosition ==
    [][\A t \in DOMAIN tab_data :
          (tab_data[t].web_view = NoView /\ tab_data'[t].web_view # NoView)
          => /\ Len(tab_bar') = Len(tab_bar)
             /\ \A i \in 1..Len(tab_bar) :
                   /\ tab_bar'[i].tab = tab_bar[i].tab
                   /\ tab_bar'[i].text =
                         IF tab_bar[i].tab = t
                         THEN display_title(tab_data'[t].title)
                         ELSE tab_bar[i].text]_vars

\* Processes Popen started that are alive now.
LiveSpawned == orphans + (IF tor_process = "alive" THEN 1 ELSE 0)

\* C11: under any order of start_tor, stop_tor, toggle_tor and closeEvent
\* at most one process started by the manager is alive, none is alive once
\* the window is closed, and a start_tor call made while is_running is set
\* starts no process, changes nothing in the manager, emits nothing and
\* returns True.
C11_AtMostOneProcess ==
    /\ LiveSpawned <= 1
    /\ pc.at = "closed" => LiveSpawned = 0
    /\ (last.op = "start" /\ last.before.is_running)
       => /\ last.ok
          /\ last.spawned = 0
          /\ last.connected_at = -1
          /\ last.emitted = <<>>
          /\ Manager(Window) = last.before

\* C11, witness: start_tor has just returned from a call made while Tor
\* was running with its process alive.
C11_Witness ==
    /\ last.op = "start"
    /\ last.before.is_running
    /\ last.before.tor_process = "alive"
    /\ tor_process = "alive"

\* C12: in the state a start_tor call that returned True leaves,
\* is_tor_running() is true; in the state a stop_tor call leaves, it is
\* false.
C12_StartThenRunning ==
    /\ (last.op = "start" /\ last.ok) => is_tor_running(Window)
    /\ last.op = "stop" => ~is_tor_running(Window)

\* C13: a start_tor call made while is_running is not set returns True,
\* with is_running set, only if one of its connection attempts was
\* answered less than timeout seconds after the wait began; a call that
\* started a process and got no such answer has stopped the process,
\* dropped the handle, left is_running unset and returned False with the
\* "Tor failed to start" notice.
C13_SuccessOnlyAfterConnection ==
    (last.op = "start" /\ ~last.before.is_running)
    => /\ (last.ok \/ is_running)
          => /\ last.ok /\ is_running
             /\ last.spawned = 1
             /\ last.connected_at \in 0..(timeout - 1)
       /\ (last.spawned = 1 /\ last.connected_at \notin 0..(timeout - 1))
          => /\ ~last.ok
             /\ tor_process = "None"
             /\ ~is_running
             /\ LiveSpawned = 0
             /\ last.emitted[Len(last.emitted)]
                    = Notice(FALSE, TimeoutReason)

\* C13, witness: a call has returned False whose wait reached the ceiling
\* just when the port began to answer.
C13_Witness ==
    /\ last.op = "start"
    /\ last.spawned = 1
    /\ last.connected_at = timeout
    /\ ~last.ok
    /\ tor_process = "None"

\* C14: a start_tor call made while is_running is not set, with no
\* tor_directory configured or with no tor executable in it, returns
\* False, starts no process, leaves the manager as it was and emits one
\* notice, whose reason tells the two cases apart.
C14_NoSpawnWithoutExecutable ==
    /\ DirectoryReason # ExecutableReason
    /\ (last.op = "start" /\ ~last.before.is_running
        /\ ~(last.before.tor_directory # "" /\ last.before.tor_exe))
       => /\ ~last.ok
          /\ last.spawned = 0
          /\ last.connected_at = -1
          /\ ~is_running
          /\ Manager(Window) = last.before
          /\ last.emitted =
                <<Notice(FALSE, IF last.before.tor_directory = ""
                                THEN DirectoryReason
                                ELSE ExecutableReason)>>

\* C14, witness: start_tor has returned from a call made with a directory
\* configured that holds no executable.
C14_Witness ==
    /\ last.op = "start"
    /\ last.before.tor_directory # ""
    /\ ~last.before.tor_exe
    /\ ~last.ok

\* C15: in every state stop_tor ends with no handle and is_running unset
\* and with no process left behind; a second stop_tor changes nothing
\* more, and a stop_tor called with nothing running changes nothing.
C15_StopIdempotent ==
    /\ LET s == stop_tor(Window)
       IN /\ s.tor_process = "None"
          /\ ~s.is_running
          /\ s.orphans = orphans
          /\ stop_tor(s) = s
          /\ (tor_process = "None" /\ ~is_running) => s = Window
    /\ last.op = "stop"
       => /\ tor_process = "None"
          /\ ~is_running
          /\ LiveSpawned = 0
          /\ last.emitted = <<Notice(FALSE, StoppedReason)>>

\* C15, witness: stop_tor has just been called while a handle was held to
\* a process that had exited on its own.
C15_Witness ==
    /\ last.op = "stop"
    /\ last.before.tor_process = "exited"
    /\ last.before.is_running
    /\ tor_process = "None"

\* C16: is_tor_running() is true exactly when is_running is set and the
\* process of the handle is alive; when the process exits on its own,
\* is_running keeps its value and is_tor_running() is false from then on.
RunningIffFlagAndAlive ==
    is_tor_running(Window) <=> (is_running /\ tor_process = "alive")
ExitIsSeenOnQuery ==
    TorExits => /\ is_running' = is_running
                /\ ~is_tor_running(Window)'
C16_RunningIsFlagAndAlive ==
    []RunningIffFlagAndAlive /\ [][ExitIsSeenOnQuery]_vars

\* C16, witness: is_running is set and the process has just exited on its
\* own, with the thread in the event loop.
C16_Witness ==
    /\ is_running
    /\ tor_process = "exited"
    /\ pc.at = "events"
    /\ last.op = "none"

\* C17: when toggle_tor or perform_search has set enable_tor and its
\* start_tor call has returned False, enable_tor is not set when the
\* handler has returned.
C17_FailedStartRevertsEnable ==
    (last.op = "start" /\ last.caller \in {"toggle_tor", "perform_search"}
     /\ ~last.ok)
    => ~enable_tor

\* C18: a start_tor call that returns False has emitted a notice with
\* running False and a reason, and no notice with running True; no
\* start_tor call starts more than one process.
C18_FailureIsReported ==
    last.op = "start"
    => /\ last.spawned <= 1
       /\ ~last.ok
          => /\ last.emitted # <<>>
             /\ \A i \in 1..Len(last.emitted) :
                   /\ ~last.emitted[i].running
                   /\ last.emitted[i].reason # ""
             /\ ~is_running

\* C18, witness: a call that started a process has returned False.
C18_Witness ==
    /\ last.op = "start"
    /\ ~last.ok
    /\ last.spawned = 1
    /\ last.caller = "toggle_tor"

\* C19: while the readiness wait of a start_tor call is in progress the
\* UI thread is free to handle a tab event.
C19_WaitOffTheUiThread ==
    pc.at = "wait" => ENABLED TabEvent

\* C20: the URL perform_search loads for a query (the text typed, without
\* the blanks around it): "http://" and the query when the query has a "."
\* and no space and does not start with a scheme; the query itself when it
\* starts with a scheme; otherwise the template of the selected engine
\* with "{}" replaced by the query with "+" for every space.
HasScheme(query) ==
    StartsWith(query, HttpPrefix) \/ StartsWith(query, HttpsPrefix)
RECURSIVE PlusForSpaces(_)
PlusForSpaces(query) ==
    IF query = <<>> THEN <<>>
    ELSE <<IF Head(query) = " " THEN "+" ELSE Head(query)>>
         \o PlusForSpaces(Tail(query))
RECURSIVE Substitute(_, _)
Substitute(template, arg) ==
    IF template = <<>> THEN <<>>
    ELSE IF StartsWith(template, BraceText)
    THEN arg \o SubSeq(template, 3, Len(template))
    ELSE <<Head(template)>> \o Substitute(Tail(template), arg)
ClaimedUrl(query, selected_engine) ==
    IF Contains(query, <<".">>) /\ ~Contains(query, <<" ">>)
       /\ ~HasScheme(query)
    THEN HttpPrefix \o query
    ELSE IF HasScheme(query) THEN query
    ELSE Substitute(search_engines[selected_engine], PlusForSpaces(query))
C20_UrlConstruction ==
    (last.op = "search" /\ strip(last.before.text) # <<>>)
    => LET query == strip(last.before.text)
           t == last.before.tab_id
       IN /\ tab_data[t].web_view # NoView
          /\ browsers[tab_data[t].web_view.id].url
                 = ClaimedUrl(query, last.before.selected_engine)



\* C21: when the program is started with the configuration file missing,
\* or with one that cannot be parsed or read, the configuration in memory
\* is default_config and the file then holds default_config.
C21_DefaultsLoadedAndWritten ==
    [][(config_file.state \in {"missing", "corrupt", "unreadable"}
        /\ Construct)
       => /\ [enable_tor |-> enable_tor',
              tor_directory |-> tor_directory'] = default_config
          /\ config_file' = Stored(default_config)]_vars
\* C22: a drag whose from_index or to_index is not the position of a
\* browser tab (it is the position of the "+" tab) is rejected: it leaves
\* tab_id_mapping as it was.
C22_MoveOutOfRangeRejected ==
    [][\A from_index, to_index \in 0..DragTabs :
          (/\ (from_index \notin RealPositions \/ to_index \notin RealPositions)
           /\ MoveTab(from_index, to_index))
          => tab_id_mapping' = tab_id_mapping]_vars


\* C23: the label a search puts on its tab is the title itself when the
\* title has 15 characters or fewer, and the first 12 characters of the
\* title followed by "..." when it has more.
ClaimedLabel(title) ==
    IF Len(title) <= 15 THEN title
    ELSE [i \in 1..15 |-> IF i <= 12 THEN title[i] ELSE "."]
LabelOf(t) == tab_bar[CHOOSE i \in 1..Len(tab_bar) : tab_bar[i].tab = t].text

C23_TitleCutAfterFifteen ==
    (last.op = "search" /\ last.before.tab_id \in LiveTabs)
    => LabelOf(last.before.tab_id)
           = ClaimedLabel(tab_data[last.before.tab_id].title)

\* C23, witness: a search has given its tab a title of exactly 15
\* characters, and the label is that title.
C23_Witness ==
    /\ last.op = "search"
    /\ last.before.tab_id \in LiveTabs
    /\ Len(tab_data[last.before.tab_id].title) = 15
    /\ LabelOf(last.before.tab_id) = tab_data[last.before.tab_id].title

\* C24: a stop_tor call made with a handle held calls terminate() first and
\* then waits; it calls kill() exactly when that wait has timed out, and
\* after it; the call returns normally, and on both paths it leaves no
\* handle, no flag and no process behind.  With no handle it touches no
\* process.
InTrace(x, trace) == \E i \in 1..Len(trace) : trace[i] = x
C24_GracefulThenForced ==
    last.op = "stop" =>
        /\ last.ok
        /\ tor_process = "None" /\ ~is_running
        /\ orphans = last.before.orphans
        /\ IF last.before.tor_process = "None"
           THEN last.trace = <<>>
           ELSE /\ SubSeq(last.trace, 1, 2) = <<"terminate", "wait">>
                /\ InTrace("kill", last.trace)
                       <=> InTrace("TimeoutExpired", last.trace)
                /\ InTrace("kill", last.trace)
                       => last.trace[Len(last.trace)] = "kill"
                          /\ last.trace[3] = "TimeoutExpired"
                /\ Len(last.trace) \in {2, 4}

\* C24, witness: a stop_tor call found a live process that did not exit
\* within the wait, and killed it.
C24_Witness ==
    /\ last.op = "stop"
    /\ last.before.tor_process = "alive"
    /\ InTrace("kill", last.trace)
    /\ tor_process = "None"

\* C25: every start_tor call that reaches the wait returns.  A pass of
\* the loop begun at or after the 30 s ceiling ends the call with failure;
\* a pass whose attempt connects ends it with success, with no further
\* attempt; any other pass is followed by the 1 s sleep, so the next
\* attempt begins 1 s after this one ended.
WaitPass(result, secs) ==
    IF pc.elapsed >= timeout
    THEN pc'.at = "events" /\ last'.op = "start" /\ ~last'.ok
    ELSE IF result = "connected"
    THEN pc'.at = "events" /\ last'.op = "start" /\ last'.ok
    ELSE pc'.at = "wait" /\ pc'.elapsed = pc.elapsed + secs + 1

C25_WaitEnds ==
    /\ [][\A result \in AttemptResults, secs \in AttemptSecs :
             WaitStep(result, secs) => WaitPass(result, secs)]_vars
    /\ (pc.at = "wait") ~> (pc.at = "events")

\* C25, witness: a start_tor call has returned True on an attempt begun one
\* second before the ceiling, after attempts that failed.
C25_Witness ==
    /\ last.op = "start"
    /\ last.ok
    /\ last.connected_at = timeout - 1
    /\ is_running
\* C26: a drag from from_index to to_index, both positions of browser
\* tabs, leaves every identity that was mapped at a position below the
\* smaller or above the larger of the two mapped at that same position.
C26_MoveLeavesOutsideAlone ==
    [][\A from_index, to_index \in 0..StripTabs :
          (/\ from_index \in RealPositions
           /\ to_index \in RealPositions
           /\ from_index \in DOMAIN tab_id_mapping
           /\ MoveTab(from_index, to_index))
          => \A p \in DOMAIN tab_id_mapping :
                (p < Min(from_index, to_index) \/ p > Max({from_index, to_index}))
                => /\ p \in DOMAIN tab_id_mapping'
                   /\ tab_id_mapping'[p] = tab_id_mapping[p]]_vars

\* C27: no identity is lost or duplicated by tab creations and drags of
\* any tab: the values of tab_id_mapping are exactly the identities in
\* tab_data, each mapped at one position, and the map has as many entries
\* as tabs have been created.
C27_NoIdentityLostOrDuplicated ==
    /\ {tab_id_mapping[p] : p \in DOMAIN tab_id_mapping} = DOMAIN tab_data
    /\ Injective(tab_id_mapping)
    /\ Cardinality(DOMAIN tab_id_mapping) = next_tab_id

\* C27, witness: three tabs were created and drags have left the keys of
\* the map other than 0..2, with a real tab at the strip's last position.
C27_Witness ==
    /\ next_tab_id = 3
    /\ moves = DragMoves
    /\ DOMAIN tab_id_mapping # 0..2
    /\ TabAt(Len(tab_bar) - 1) # Affordance

\* C28: a tab is created only by a click on the "+" tab: a click on the
\* position of a browser tab, whatever its label, leaves the number of
\* tabs and next_tab_id as they were.
C28_OnlyAffordanceCreates ==
    [][\A p \in 0..MaxTabs :
          (p \in RealPositions /\ SelectPosition(p))
          => /\ next_tab_id' = next_tab_id
             /\ Len(tab_bar') = Len(tab_bar)
             /\ DOMAIN tab_data' = DOMAIN tab_data]_vars

\* C29: a step in which perform_search gives a tab its web view and leaves
\* enable_tor set with Tor running has made that view with the Tor
\* profile, also when Tor was started inside that same perform_search call.
C29_TorLoadUsesTorProfile ==
    [][\A t \in DOMAIN tab_data :
          (/\ tab_data[t].web_view = NoView
           /\ tab_data'[t].web_view # NoView
           /\ enable_tor'
           /\ is_tor_running(Window)')
          => browsers'[tab_data'[t].web_view.id].profile = "tor"]_vars

\* C30: whenever no start_tor call is in its wait, is_running is set
\* exactly when a process handle is held.
C30_RunningIffHandleHeld ==
    pc.at # "wait" => (is_running <=> tor_process # "None")

\* C30, witness: a start_tor call that spawned a process has returned False
\* after its wait, from a state with neither flag nor handle, and has left
\* neither behind.
C30_Witness ==
    /\ last.op = "start"
    /\ last.caller = "start_tor"
    /\ last.spawned = 1
    /\ ~last.ok
    /\ ~last.before.is_running
    /\ ~is_running
    /\ tor_process = "None"
====
